---- MODULE Spec2Model ----
(***************************************************************************)
(* QuiverQuantCongresssUniverseAlgorithm                                   *)
(* (QuiverQuantCongressUniverseSelectionAlgorithm.py).                     *)
(*                                                                         *)
(* The algorithm object is driven by the engine: Initialize once, then the *)
(* two callbacks UniverseSelection(data) and OnSecuritiesChanged(changes). *)
(* UniverseSelection is followed statement by statement (the logging loop  *)
(* of lines 29-30, then the comprehension of lines 33-34), so that the     *)
(* order of its effects can be stated.                                     *)
(***************************************************************************)
EXTENDS Integers, Sequences, FiniteSets, TLC

\* ------------------------------------------------------------------ bounds
\* longest data sequence handed to UniverseSelection
MaxLen == 2
\* longest log the engine lets a run produce
MaxLog == 3

\* ------------------------------------------------------- program constants
\* d.Amount > 200000 (line 34)
Threshold == 200000
\* self.SetCash(100000) (line 23)
StartingCash == 100000

\* ------------------------------------------------------------ input values
\* An Amount is an optional number: <<n>> is the number n, <<>> is Python's
\* None (a datum whose amount the feed did not supply).
NoAmount == <<>>
Amounts == {NoAmount, <<Threshold>>, <<Threshold + 1>>}
Symbols == {"SYM_A", "SYM_B"}
Representatives == {"Rep1"}
Transactions == {"Buy", "Sell"}

Datum == [Symbol : Symbols, Representative : Representatives,
          Amount : Amounts, Transaction : Transactions]

\* all sequences over S of length at most n
SeqUpTo(S, n) == UNION {[1..k -> S] : k \in 0..n}

\* the data sequences the engine hands to UniverseSelection
InputsUpTo == [n \in 0..MaxLen |-> SeqUpTo(Datum, n)]

\* the change sets the engine reports
ChangeSets == {[Added |-> <<"SYM_A">>, Removed |-> <<>>],
               [Added |-> <<"SYM_B">>, Removed |-> <<"SYM_A">>]}

\* values of the configuration before Initialize has run
Resolutions == {"Minute", "Daily"}
NoDate == [year |-> 0, month |-> 0, day |-> 0]
\* no change set has been reported yet
NoChanges == [Added |-> <<>>, Removed |-> <<>>]

VARIABLES
    pc,          \* "start", "idle", "us_log", "us_done", "us_raised", "osc_done"
    resolution,  \* self.UniverseSettings.Resolution
    startDate,   \* set by SetStartDate
    endDate,     \* set by SetEndDate
    cash,        \* set by SetCash
    universes,   \* the universes registered by AddUniverse, in order
    log,         \* the calls made to self.Log, in order
    data,        \* argument of the UniverseSelection invocation
    i,           \* data already logged by the loop of lines 29-30
    entry,       \* Len(log) when the invocation was entered
    result,      \* value returned by UniverseSelection
    changes,     \* argument of the OnSecuritiesChanged invocation
    earlier      \* <<>> or <<r>>: one invocation that has returned,
                 \* r = [data, result, entry]

vars == <<pc, resolution, startDate, endDate, cash, universes, log,
          data, i, entry, result, changes, earlier>>
config == <<resolution, startDate, endDate, cash, universes>>
frame == <<data, i, entry, result>>

\* --------------------------------------------------------- pure functions
\* f"{datum.Amount}": str(None) is "None", a number prints in decimal
AmountStr(a) == IF a = NoAmount THEN "None" ELSE ToString(a[1])

\* the f-string of line 30, as its pieces in order
LogLine(d) == <<d.Symbol, ",", d.Representative, ",",
                AmountStr(d.Amount), ",", d.Transaction>>

\* d.Amount > 200000 raises TypeError when Amount is None
CompareRaises(d) == d.Amount = NoAmount

\* variant: the threshold compared with >= instead of >
CriteriaAtLeast(d) == d.Amount[1] >= Threshold /\ d.Transaction = "Buy"

\* d.Amount > 200000 and d.Transaction == OrderDirection.Buy
Criteria(d) == d.Amount[1] > Threshold /\ d.Transaction = "Buy"

\* variant: the selected symbols collected last-first
RECURSIVE ComprehensionReversed(_)
ComprehensionReversed(s) ==
    IF s = <<>> THEN <<>>
    ELSE IF Criteria(Head(s))
         THEN ComprehensionReversed(Tail(s)) \o <<Head(s).Symbol>>
         ELSE ComprehensionReversed(Tail(s))

\* variant: the selected symbols collected into a set-like list, a symbol
\* already collected is not collected again
RECURSIVE ComprehensionDistinct(_)
ComprehensionDistinct(s) ==
    IF s = <<>> THEN <<>>
    ELSE LET rest == ComprehensionDistinct(SubSeq(s, 1, Len(s) - 1))
             last == s[Len(s)]
         IN  IF /\ Criteria(last)
                /\ \A k \in 1..Len(rest) : rest[k] # last.Symbol
             THEN Append(rest, last.Symbol)
             ELSE rest

\* [d.Symbol for d in s if ...], for s on which the condition does not raise
RECURSIVE Comprehension(_)
Comprehension(s) ==
    IF s = <<>> THEN <<>>
    ELSE IF Criteria(Head(s))
         THEN <<Head(s).Symbol>> \o Comprehension(Tail(s))
         ELSE Comprehension(Tail(s))

\* variant: the first datum is read before the sequence is known to have one
ComprehensionRaisesOnEmpty(s) ==
    s = <<>> \/ \E k \in 1..Len(s) : CompareRaises(s[k])

\* the comprehension raises as soon as one condition does
ComprehensionRaises(s) == \E k \in 1..Len(s) : CompareRaises(s[k])

\* changes.ToString()
ChangesToString(c) == <<"Added:">> \o c.Added \o <<"Removed:">> \o c.Removed

\* the engine holds a reference to the callback for a registered universe
Registered(selector) ==
    \E k \in 1..Len(universes) : universes[k].selector = selector

\* no callback is running and the algorithm has not stopped on an error
Ready == pc \in {"idle", "us_done", "osc_done"}

\* the data sequences whose log lines the log still has room for
Offered ==
    IF Ready /\ Len(log) <= MaxLog
    THEN InputsUpTo[IF MaxLog - Len(log) < MaxLen
                    THEN MaxLog - Len(log) ELSE MaxLen]
    ELSE {}

\* ------------------------------------------------------------------- Init
Init ==
    /\ pc = "start"
    /\ resolution \in Resolutions
    /\ startDate = NoDate
    /\ endDate = NoDate
    /\ cash \in {0, StartingCash}
    /\ universes = <<>>
    /\ log = <<>>
    /\ data = <<>>
    /\ i = 0
    /\ entry = 0
    /\ result = <<>>
    /\ changes = NoChanges
    /\ earlier = <<>>

\* ---------------------------------------------------------------- actions
\* variant: Initialize without the SetCash call
InitializeWithoutCash ==
    /\ pc = "start"
    /\ resolution' = "Daily"
    /\ startDate' = [year |-> 2022, month |-> 2, day |-> 14]
    /\ endDate' = [year |-> 2022, month |-> 2, day |-> 18]
    /\ universes' = Append(universes,
                      [type |-> "QuiverQuantCongressUniverse",
                       name |-> "QuiverQuantCongresssUniverse",
                       resolution |-> "Daily",
                       selector |-> "UniverseSelection"])
    /\ pc' = "idle"
    /\ UNCHANGED <<cash, log, frame, changes, earlier>>

\* variant: Initialize with the AddUniverse call made twice
InitializeRegisteringTwice ==
    /\ pc = "start"
    /\ resolution' = "Daily"
    /\ startDate' = [year |-> 2022, month |-> 2, day |-> 14]
    /\ endDate' = [year |-> 2022, month |-> 2, day |-> 18]
    /\ cash' = StartingCash
    /\ universes' = universes \o
                      [k \in 1..2 |->
                        [type |-> "QuiverQuantCongressUniverse",
                         name |-> "QuiverQuantCongresssUniverse",
                         resolution |-> "Daily",
                         selector |-> "UniverseSelection"]]
    /\ pc' = "idle"
    /\ UNCHANGED <<log, frame, changes, earlier>>

\* Initialize (lines 17-26), run once by the engine at startup
Initialize ==
    /\ pc = "start"
    /\ resolution' = "Daily"
    /\ startDate' = [year |-> 2022, month |-> 2, day |-> 14]
    /\ endDate' = [year |-> 2022, month |-> 2, day |-> 18]
    /\ cash' = StartingCash
    /\ universes' = Append(universes,
                      [type |-> "QuiverQuantCongressUniverse",
                       name |-> "QuiverQuantCongresssUniverse",
                       resolution |-> "Daily",
                       selector |-> "UniverseSelection"])
    /\ pc' = "idle"
    /\ UNCHANGED <<log, frame, changes, earlier>>

\* the engine calls the registered selector with new universe data (line 28)
UniverseSelectionEnter(d) ==
    /\ Ready
    /\ Registered("UniverseSelection")
    /\ Len(log) + Len(d) <= MaxLog
    /\ data' = d
    /\ i' = 0
    /\ entry' = Len(log)
    /\ result' = <<>>
    /\ pc' = "us_log"
    /\ UNCHANGED <<config, log, changes, earlier>>

\* variant: the loop logs only the data that will be selected
UniverseSelectionLogSelectedOnly ==
    /\ pc = "us_log"
    /\ i < Len(data)
    /\ log' = IF ~CompareRaises(data[i + 1]) /\ Criteria(data[i + 1])
              THEN Append(log, LogLine(data[i + 1]))
              ELSE log
    /\ i' = i + 1
    /\ UNCHANGED <<pc, config, data, entry, result, changes, earlier>>

\* variant: the loop walks the data last-first
UniverseSelectionLogReversed ==
    /\ pc = "us_log"
    /\ i < Len(data)
    /\ log' = Append(log, LogLine(data[Len(data) - i]))
    /\ i' = i + 1
    /\ UNCHANGED <<pc, config, data, entry, result, changes, earlier>>

\* one iteration of the loop of lines 29-30
UniverseSelectionLog ==
    /\ pc = "us_log"
    /\ i < Len(data)
    /\ log' = Append(log, LogLine(data[i + 1]))
    /\ i' = i + 1
    /\ UNCHANGED <<pc, config, data, entry, result, changes, earlier>>

\* variant: a datum whose line an earlier invocation already logged is skipped
UniverseSelectionReturnSkippingSeen ==
    /\ pc = "us_log"
    /\ i = Len(data)
    /\ IF ComprehensionRaises(data)
       THEN /\ pc' = "us_raised"
            /\ UNCHANGED <<result, earlier>>
       ELSE /\ pc' = "us_done"
            /\ result' = Comprehension(SelectSeq(data,
                            LAMBDA d : \A k \in 1..entry : log[k] # LogLine(d)))
            /\ earlier' \in {earlier, <<[data |-> data, result |-> result',
                                          entry |-> entry]>>}
    /\ UNCHANGED <<config, log, data, i, entry, changes>>

\* the comprehension of lines 33-34 and the return; an exception ends the run
UniverseSelectionReturn ==
    /\ pc = "us_log"
    /\ i = Len(data)
    /\ IF ComprehensionRaises(data)
       THEN /\ pc' = "us_raised"
            /\ UNCHANGED <<result, earlier>>
       ELSE /\ pc' = "us_done"
            /\ result' = Comprehension(data)
            /\ earlier' \in {earlier, <<[data |-> data, result |-> result',
                                          entry |-> entry]>>}
    /\ UNCHANGED <<config, log, data, i, entry, changes>>

\* variant: the added and the removed securities logged as two entries
OnSecuritiesChangedTwoEntries(c) ==
    /\ Ready
    /\ Len(log) + 1 <= MaxLog
    /\ changes' = c
    /\ log' = log \o << <<"Added:">> \o c.Added, <<"Removed:">> \o c.Removed >>
    /\ pc' = "osc_done"
    /\ UNCHANGED <<config, frame, earlier>>

\* OnSecuritiesChanged (lines 36-37)
OnSecuritiesChanged(c) ==
    /\ Ready
    /\ Len(log) + 1 <= MaxLog
    /\ changes' = c
    /\ log' = Append(log, ChangesToString(c))
    /\ pc' = "osc_done"
    /\ UNCHANGED <<config, frame, earlier>>

Next ==
    \/ Initialize
    \/ \E d \in Offered : UniverseSelectionEnter(d)
    \/ UniverseSelectionLog
    \/ UniverseSelectionReturn
    \/ \E c \in ChangeSets : OnSecuritiesChanged(c)

Spec == Init /\ [][Next]_vars

\* ------------------------------------------------------------- properties
\* the selection criteria as the specification words them
MeetsCriteria(d) ==
    d.Amount # NoAmount /\ d.Amount[1] > 200000 /\ d.Transaction = "Buy"

\* the input positions holding a datum that meets the criteria
SelectedAt(s) == {k \in 1..Len(s) : MeetsCriteria(s[k])}

\* how often x occurs in the sequence q
Occurrences(q, x) == Cardinality({k \in 1..Len(q) : q[k] = x})

\* x is one of the pieces of a log line
Contains(line, x) == \E p \in 1..Len(line) : line[p] = x

\* a UniverseSelection invocation is running or was the last thing to run
InSelection == pc \in {"us_log", "us_done", "us_raised"}

\* C1: the symbols UniverseSelection returns are exactly the symbols of the
\* data with Amount > 200000 and Transaction = Buy; a datum with
\* Amount <= 200000 (200000 itself included) or Transaction = Sell
\* contributes none.
C1_ExactSelection ==
    pc = "us_done" =>
        {result[j] : j \in 1..Len(result)}
            = {data[k].Symbol : k \in SelectedAt(data)}

\* a returned selection that took one datum and left out a Buy of exactly
\* 200000
C1_Witness ==
    /\ pc = "us_done"
    /\ Len(result) = 1
    /\ \E k \in 1..Len(data) :
         data[k].Amount = <<200000>> /\ data[k].Transaction = "Buy"

\* C2: the result keeps the input order: the j-th symbol returned is the
\* symbol of the j-th selected datum of the input.
C2_OrderPreserved ==
    pc = "us_done" =>
        \E f \in [1..Len(result) -> 1..Len(data)] :
            /\ \A j, k \in 1..Len(result) : j < k => f[j] < f[k]
            /\ {f[j] : j \in 1..Len(result)} = SelectedAt(data)
            /\ \A j \in 1..Len(result) : result[j] = data[f[j]].Symbol

\* two data with different symbols, both selected
C2_Witness ==
    /\ pc = "us_done"
    /\ Len(result) = 2
    /\ result[1] # result[2]
    /\ result[1] = data[1].Symbol

\* C3, as claimed: no symbol occurs more than once in the returned selection.
C3_NoSymbolTwice ==
    pc = "us_done" =>
        \A j, k \in 1..Len(result) : j # k => result[j] # result[k]

\* C3, amended: the result is a list holding one entry per selected datum: a
\* symbol occurs in it as often as there are selected data carrying it, so it
\* occurs twice when two selected data carry it.
C3_OneEntryPerSelectedDatum ==
    pc = "us_done" =>
        \A s \in Symbols :
            Occurrences(result, s)
                = Cardinality({k \in SelectedAt(data) : data[k].Symbol = s})

\* two selected data carrying the same symbol
C3_Witness ==
    /\ pc = "us_done"
    /\ Len(result) = 2
    /\ result[1] = result[2]

\* C4: an invocation makes as many log calls as it has input records, and
\* what it returns is what the comprehension gives on the input as passed.
C4_LogCountAndSelection ==
    /\ pc \in {"us_done", "us_raised"} => Len(log) - entry = Len(data)
    /\ pc = "us_done" => result = Comprehension(data)

\* two records logged, one of them selected
C4_Witness ==
    /\ pc = "us_done"
    /\ Len(data) = 2
    /\ Len(log) - entry = 2
    /\ Len(result) = 1

\* C5, as claimed: after Initialize the four settings hold and nothing else
\* of the configuration has been set.
C5_FourSettingsOnly ==
    pc # "start" =>
        /\ resolution = "Daily"
        /\ startDate = [year |-> 2022, month |-> 2, day |-> 14]
        /\ endDate = [year |-> 2022, month |-> 2, day |-> 18]
        /\ cash = 100000
        /\ universes = <<>>

\* C5, amended: after Initialize the four settings hold and one universe is
\* registered (QuiverQuantCongressUniverse, Daily, UniverseSelection);
\* Initialize logs nothing and sets nothing else.
C5_ConfigurationAfterInitialize ==
    /\ pc # "start" =>
        /\ resolution = "Daily"
        /\ startDate = [year |-> 2022, month |-> 2, day |-> 14]
        /\ endDate = [year |-> 2022, month |-> 2, day |-> 18]
        /\ cash = 100000
        /\ universes = <<[type |-> "QuiverQuantCongressUniverse",
                          name |-> "QuiverQuantCongresssUniverse",
                          resolution |-> "Daily",
                          selector |-> "UniverseSelection"]>>
    /\ pc = "idle" =>
        /\ log = <<>>
        /\ frame = <<<<>>, 0, 0, <<>>>>
        /\ changes = NoChanges

\* the state Initialize leaves
C5_Witness == pc = "idle" /\ cash = 100000 /\ Len(universes) = 1

\* C6: an invocation returns what an earlier invocation returned for the same
\* input, whatever ran in between.
C6_SameInputSameSelection ==
    (pc = "us_done" /\ earlier # <<>> /\ earlier[1].data = data)
        => result = earlier[1].result

\* the same non-empty input given again after other log entries were made
C6_Witness ==
    /\ pc = "us_done"
    /\ earlier # <<>>
    /\ earlier[1].data = data
    /\ earlier[1].entry < entry
    /\ result # <<>>

\* C7: on empty input UniverseSelection returns the empty selection and logs
\* nothing, and it raises only when a datum has no numeric Amount.
C7_EmptyInputAndNoError ==
    /\ (pc \in {"us_done", "us_raised"} /\ data = <<>>) =>
        pc = "us_done" /\ result = <<>> /\ Len(log) = entry
    /\ pc = "us_raised" => \E k \in 1..Len(data) : data[k].Amount = NoAmount

\* an invocation on empty input that returned, with entries already logged
C7_Witness == pc = "us_done" /\ data = <<>> /\ entry > 0

\* C8: OnSecuritiesChanged appends one log entry, the string of its change
\* set, and leaves the configuration alone; UniverseSelection changes no
\* configuration either and only ever appends to the log.
C8_FrameEffects ==
    [][/\ pc' = "osc_done" =>
            /\ log' = Append(log, <<"Added:">> \o changes'.Added
                                    \o <<"Removed:">> \o changes'.Removed)
            /\ config' = config
       /\ pc' \in {"us_log", "us_done", "us_raised"} =>
            /\ config' = config
            /\ changes' = changes
            /\ Len(log') >= Len(log)
            /\ SubSeq(log', 1, Len(log)) = log]_vars

\* OnSecuritiesChanged has run after other entries were logged
C8_Witness ==
    /\ pc = "osc_done"
    /\ Len(log) >= 2
    /\ log[Len(log)] = ChangesToString(changes)
    /\ Len(universes) = 1

\* C9: while UniverseSelection runs, the log holds one line per datum
\* visited, in input order, each with that datum's symbol, representative,
\* amount and direction; nothing is returned before every datum is logged.
C9_LogOrderBeforeSelection ==
    InSelection =>
        /\ Len(log) = entry + i
        /\ \A k \in 1..i :
             /\ Contains(log[entry + k], data[k].Symbol)
             /\ Contains(log[entry + k], data[k].Representative)
             /\ Contains(log[entry + k], AmountStr(data[k].Amount))
             /\ Contains(log[entry + k], data[k].Transaction)
        /\ pc = "us_log" => result = <<>>
        /\ pc \in {"us_done", "us_raised"} => i = Len(data)

\* a returned invocation whose first datum was logged and not selected
C9_Witness ==
    /\ pc = "us_done"
    /\ Len(data) = 2
    /\ ~MeetsCriteria(data[1])
    /\ data[1].Symbol # data[2].Symbol
    /\ Len(result) = 1

\* C10: Initialize runs once, before any callback, and registers the universe
\* once with the UniverseSelection callback at Daily resolution; it starts no
\* callback itself.
C10_InitializeOnceBeforeCallbacks ==
    /\ [](pc = "start" =>
            universes = <<>> /\ log = <<>> /\ data = <<>> /\ earlier = <<>>)
    /\ [](pc # "start" =>
            /\ Len(universes) = 1
            /\ universes[1].selector = "UniverseSelection"
            /\ universes[1].resolution = "Daily")
    /\ [][/\ pc = "start" => pc' = "idle" /\ log' = log /\ frame' = frame
          /\ pc # "start" => pc' # "start" /\ universes' = universes]_vars

\* a selection returned by the registered callback
C10_Witness ==
    /\ pc = "us_done"
    /\ result # <<>>
    /\ Registered("UniverseSelection")

====
